---------------------------- MODULE Spec2Model ----------------------------
(***************************************************************************)
(* A model of the personal assistant: the Persistence Gateway              *)
(* (personal_ass_database.py), the Mailbox Poller and Notification Ranker  *)
(* (gmail_integration.py), the Study Advisor (study_learning_assit.py) and *)
(* the console menu (main_personal_ass_controller.py).                     *)
(*                                                                         *)
(* Text is modelled as a sequence of one-character strings, so that        *)
(* lower-casing, substring search, splitting and slicing are computed and  *)
(* not assumed.                                                            *)
(***************************************************************************)
EXTENDS Integers, Sequences, FiniteSets, Bags, TLC

VARIABLES
    emails,          \* table emails, in rowid order
    notifications,   \* table notifications, in rowid order (id = position)
    study_sessions,  \* table study_sessions, a bag of rows
    service,         \* GmailIntegrator.service is set (not None)
    clock,           \* the wall clock: [day, sec]
    menu_pc,         \* where the console loop stands
    scheduler,       \* the background thread: its position, the jobs due, the
                     \* jobs run_pending still has to run, the handlers executing,
                     \* how the latest scheduled poll ended
    result           \* what the latest step returned, printed or raised

vars == <<emails, notifications, study_sessions, service, clock, menu_pc, scheduler,
          result>>

(***************************************************************************)
(* Bounds of the model.                                                    *)
(***************************************************************************)
MaxNotifs == 4       \* rows of table notifications
MaxBatch == 2        \* messages one mailbox listing returns
MaxSessions == 5     \* rows of table study_sessions
MaxSec == 1          \* seconds the clock ticks within a day
MaxDay == 8          \* days the clock advances
MaxClassified == 2   \* notifications created by direct calls of the analyzer

(***************************************************************************)
(* Text.                                                                   *)
(***************************************************************************)
UpperChars == <<"A","B","C","D","E","F","G","H","I","J","K","L","M",
                "N","O","P","Q","R","S","T","U","V","W","X","Y","Z">>

LowerChars == <<"a","b","c","d","e","f","g","h","i","j","k","l","m",
                "n","o","p","q","r","s","t","u","v","w","x","y","z">>

\* str.lower() of one character
LowerChar(c) ==
    LET at == {i \in 1..Len(UpperChars) : UpperChars[i] = c}
    IN  IF at = {} THEN c ELSE LowerChars[CHOOSE i \in at : TRUE]

\* str.lower()
Lower(s) == [i \in 1..Len(s) |-> LowerChar(s[i])]

\* needle in hay
Contains(needle, hay) ==
    \E i \in 0..(Len(hay) - Len(needle)) :
        SubSeq(hay, i + 1, i + Len(needle)) = needle

\* s[:n]
Take(s, n) == SubSeq(s, 1, IF Len(s) < n THEN Len(s) ELSE n)

\* s.split('@')[-1]: what follows the last '@', the whole of s when it has none
AfterLastAt(s) ==
    LET ats == {i \in 1..Len(s) : s[i] = "@"}
    IN  IF ats = {} THEN s
        ELSE SubSeq(s, (CHOOSE i \in ats : \A j \in ats : j <= i) + 1, Len(s))

(***************************************************************************)
(* The clock. created_at is CURRENT_TIMESTAMP, which resolves seconds;     *)
(* session_date is the clock's date.                                       *)
(***************************************************************************)
TsLess(a, b) == a.day < b.day \/ (a.day = b.day /\ a.sec < b.sec)

(***************************************************************************)
(* Persistence Gateway.                                                    *)
(***************************************************************************)
NoText == << >>

\* the column default of priority
DefaultPriority == "medium"

\* INSERT INTO notifications (type, title, message, priority, scheduled_for):
\* the row as the table's defaults complete it
NotificationRow(type, title, message, priority, now) ==
    [type |-> type, title |-> title, message |-> message, priority |-> priority,
     is_read |-> FALSE, created_at |-> now, action_required |-> FALSE]

\* PersonalAssistantDB.create_notification
create_notification(notifs, type, title, message, priority, now) ==
    Append(notifs, NotificationRow(type, title, message, priority, now))

\* MarkReadById with the flag flipped instead of set
MarkReadByIdToggle(notifs, id) ==
    [i \in 1..Len(notifs) |->
        IF i = id THEN [notifs[i] EXCEPT !.is_read = ~@] ELSE notifs[i]]

\* UPDATE notifications SET is_read = TRUE WHERE id = ?
MarkReadById(notifs, id) ==
    [i \in 1..Len(notifs) |->
        IF i = id THEN [notifs[i] EXCEPT !.is_read = TRUE] ELSE notifs[i]]

\* 'all' as a purge of the table
MarkAllReadPurge(notifs) == << >>

\* UPDATE notifications SET is_read = TRUE
MarkAllRead(notifs) ==
    [i \in 1..Len(notifs) |-> [notifs[i] EXCEPT !.is_read = TRUE]]

\* The priority texts in the order SQLite's BINARY collation gives them. "critical"
\* stands for a priority outside the four the ranker knows.
PriorityTexts == <<"critical", "high", "low", "medium", "urgent">>

Collation(p) == CHOOSE k \in 1..Len(PriorityTexts) : PriorityTexts[k] = p

\* QueryBefore with created_at ascending
QueryBeforeOldestFirst(notifs, i, j) ==
    \/ Collation(notifs[i].priority) > Collation(notifs[j].priority)
    \/ /\ notifs[i].priority = notifs[j].priority
       /\ TsLess(notifs[i].created_at, notifs[j].created_at)

\* ORDER BY priority DESC, created_at DESC: row i has to come before row j
QueryBefore(notifs, i, j) ==
    \/ Collation(notifs[i].priority) > Collation(notifs[j].priority)
    \/ /\ notifs[i].priority = notifs[j].priority
       /\ TsLess(notifs[j].created_at, notifs[i].created_at)

\* WHERE is_read = FALSE: the ids of the rows selected
PendingIds(notifs) == {i \in 1..Len(notifs) : ~notifs[i].is_read}

\* Every order of the ids in S the ORDER BY clause allows: rows that tie on both
\* keys come in an order SQL leaves open.
RECURSIVE QueryOrders(_, _)
QueryOrders(notifs, S) ==
    IF S = {} THEN {<< >>}
    ELSE UNION {{<<i>> \o rest : rest \in QueryOrders(notifs, S \ {i})} :
                i \in {j \in S : \A k \in S : ~QueryBefore(notifs, k, j)}}

\* PersonalAssistantDB.get_pending_notifications: the results it may return
get_pending_notifications(notifs) == QueryOrders(notifs, PendingIds(notifs))

(***************************************************************************)
(* Notification Ranker: display.                                           *)
(***************************************************************************)
\* priority_order with the default 0 in place of 5
priority_order_default_first(p) ==
    CASE p = "urgent" -> 1
      [] p = "high" -> 2
      [] p = "medium" -> 3
      [] p = "low" -> 4
      [] OTHER -> 0

\* priority_order.get(x[4], 5)
priority_order(p) ==
    CASE p = "urgent" -> 1
      [] p = "high" -> 2
      [] p = "medium" -> 3
      [] p = "low" -> 4
      [] OTHER -> 5

\* InsertByKey placing id before the elements of equal key: an unstable sort
InsertByKeyUnstable(notifs, sorted, id) ==
    LET key(x) == priority_order(notifs[x].priority)
        after == {k \in 1..Len(sorted) : key(sorted[k]) < key(id)}
        pos == IF after = {} THEN 0 ELSE CHOOSE k \in after : \A m \in after : m <= k
    IN  SubSeq(sorted, 1, pos) \o <<id>> \o SubSeq(sorted, pos + 1, Len(sorted))

\* One step of a stable sort: id goes after every element whose key is not greater.
InsertByKey(notifs, sorted, id) ==
    LET key(x) == priority_order(notifs[x].priority)
        after == {k \in 1..Len(sorted) : key(sorted[k]) <= key(id)}
        pos == IF after = {} THEN 0 ELSE CHOOSE k \in after : \A m \in after : m <= k
    IN  SubSeq(sorted, 1, pos) \o <<id>> \o SubSeq(sorted, pos + 1, Len(sorted))

\* sorted(notifications, key=lambda x: priority_order.get(x[4], 5))
RECURSIVE SortedByPriority(_, _)
SortedByPriority(notifs, q) ==
    IF q = << >> THEN << >>
    ELSE InsertByKey(notifs, SortedByPriority(notifs, SubSeq(q, 1, Len(q) - 1)), q[Len(q)])

\* NotificationManager.display_notifications: the ids it prints, in order, for
\* the query result q
display_notifications(notifs, q) ==
    IF q = << >> THEN << >> ELSE SortedByPriority(notifs, q)

(***************************************************************************)
(* The state after construction: PersonalAssistantDB.init_database has     *)
(* created the empty tables, GmailIntegrator.__init__ has set service to   *)
(* None, and the console loop is at its menu.                              *)
(***************************************************************************)
Init ==
    /\ emails = << >>
    /\ notifications = << >>
    /\ study_sessions = EmptyBag
    /\ service = FALSE
    /\ clock = [day |-> 0, sec |-> 0]
    /\ menu_pc = "menu"
    /\ scheduler = [pc |-> "off", due |-> {}, todo |-> << >>, running |-> {}, fired |-> 0,
                    last_poll |-> "none"]
    /\ result = [op |-> "init"]

(***************************************************************************)
(* The clock.                                                              *)
(***************************************************************************)
\* A second passes.
Tick ==
    /\ clock.sec < MaxSec
    /\ clock' = [clock EXCEPT !.sec = @ + 1]
    /\ result' = [op |-> "tick"]
    /\ UNCHANGED <<emails, notifications, study_sessions, service, menu_pc, scheduler>>

(***************************************************************************)
(* Persistence Gateway: an insert of a notification by any component.      *)
(***************************************************************************)
PriorityInputs == {"urgent", "high", "medium", "low", "critical"}

ReminderTitle == [fmt |-> "Study NLP", arg |-> NoText]

ReminderMessage == [fmt |-> "Time for daily NLP learning session", args |-> << >>]

CreateNotification ==
    /\ Len(notifications) < MaxNotifs
    /\ \E priority \in PriorityInputs :
        notifications' = create_notification(notifications, "reminder",
                             ReminderTitle, ReminderMessage, priority, clock)
    /\ result' = [op |-> "create_notification"]
    /\ UNCHANGED <<emails, study_sessions, service, clock, menu_pc, scheduler>>

(***************************************************************************)
(* Console menu, choice 3: the pending notifications are displayed, then   *)
(* the prompt reads an id, 'all' or anything else.                         *)
(***************************************************************************)
DisplayNotifications ==
    /\ menu_pc = "menu"
    /\ \E q \in get_pending_notifications(notifications) :
        result' = [op |-> "display", pending |-> q,
                   shown |-> display_notifications(notifications, q)]
    /\ menu_pc' = "mark_prompt"
    /\ UNCHANGED <<emails, notifications, study_sessions, service, clock, scheduler>>

MarkInputs ==
    {[kind |-> "all", id |-> 0], [kind |-> "other", id |-> 0]}
        \cup {[kind |-> "id", id |-> n] : n \in 1..MaxNotifs}

\* The rows as the prompt's answer leaves them.
MarkPromptUpdate(notifs, input) ==
    IF input.kind = "all" THEN MarkAllRead(notifs)
    ELSE IF input.kind = "id" THEN MarkReadById(notifs, input.id)
    ELSE notifs

MarkPrompt ==
    /\ menu_pc = "mark_prompt"
    /\ \E input \in MarkInputs :
        /\ notifications' = MarkPromptUpdate(notifications, input)
        /\ result' = [op |-> "mark_read",
                      again |-> /\ input.kind = "id"
                                /\ input.id \in 1..Len(notifications)
                                /\ notifications[input.id].is_read]
    /\ menu_pc' = "menu"
    /\ UNCHANGED <<emails, study_sessions, service, clock, scheduler>>

NextNotify == Tick \/ CreateNotification \/ DisplayNotifications \/ MarkPrompt

SpecNotify == Init /\ [][NextNotify]_vars

(***************************************************************************)
(* Persistence Gateway: emails.                                            *)
(***************************************************************************)
\* INSERT INTO emails with the row's other columns at their defaults;
\* labels is NULL when the list is empty (json.dumps(labels) if labels else None)
EmailRow(gmail_id, sender, subject, snippet, body, labels, now) ==
    [gmail_id |-> gmail_id, sender |-> sender, subject |-> subject,
     snippet |-> snippet, body |-> body, received_date |-> now,
     labels |-> [null |-> labels = << >>, json |-> labels],
     is_read |-> FALSE, is_important |-> FALSE]

\* add_email as a plain INSERT that always adds the row
add_email_always(store, gmail_id, sender, subject, snippet, body, labels, now) ==
    Append(store, EmailRow(gmail_id, sender, subject, snippet, body, labels, now))

\* add_email as INSERT OR REPLACE: the stored row gives way to the new one
add_email_replace(store, gmail_id, sender, subject, snippet, body, labels, now) ==
    LET Other(r) == r.gmail_id # gmail_id
    IN  Append(SelectSeq(store, Other),
               EmailRow(gmail_id, sender, subject, snippet, body, labels, now))

\* PersonalAssistantDB.add_email: INSERT OR IGNORE on the UNIQUE gmail_id
add_email(store, gmail_id, sender, subject, snippet, body, labels, now) ==
    IF \E k \in 1..Len(store) : store[k].gmail_id = gmail_id
    THEN store
    ELSE Append(store, EmailRow(gmail_id, sender, subject, snippet, body, labels, now))

(***************************************************************************)
(* Notification Ranker: classification.                                    *)
(***************************************************************************)
important_keywords == <<
    <<"u","r","g","e","n","t">>,
    <<"i","m","p","o","r","t","a","n","t">>,
    <<"a","s","a","p">>,
    <<"d","e","a","d","l","i","n","e">>,
    <<"m","e","e","t","i","n","g">>,
    <<"i","n","t","e","r","v","i","e","w">>,
    <<"p","r","o","j","e","c","t">>,
    <<"s","u","b","m","i","t">>,
    <<"p","a","y","m","e","n","t">>,
    <<"i","n","v","o","i","c","e">> >>

important_domains == <<
    <<"w","o","r","k",".","c","o","m">>,
    <<"u","n","i","v","e","r","s","i","t","y",".","e","d","u">>,
    <<"b","a","n","k",".","c","o","m">> >>

TitleLimit == 50

MessageLimit == 100

BodyLimit == 1000

\* text_to_check without .lower()
text_to_check_cased(email) == email.subject \o <<" ">> \o email.snippet

\* (email['subject'] + ' ' + email['snippet']).lower()
text_to_check(email) == Lower(email.subject \o <<" ">> \o email.snippet)

\* any(keyword in text_to_check for keyword in important_keywords)
KeywordHit(email) ==
    \E text \in {text_to_check(email)} :
        \E k \in 1..Len(important_keywords) : Contains(important_keywords[k], text)

\* email['sender'].split('@')[-1] if '@' in email['sender'] else ''
sender_domain(email) ==
    IF \E i \in 1..Len(email.sender) : email.sender[i] = "@"
    THEN AfterLastAt(email.sender)
    ELSE << >>

\* any(domain in sender_domain for domain in important_domains)
DomainHit(email) ==
    \E domain \in {sender_domain(email)} :
        \E d \in 1..Len(important_domains) : Contains(important_domains[d], domain)

\* The priority analyze_emails_for_notifications gives one email: medium, raised
\* to high by a keyword, raised to high by a domain.
Classify(email) ==
    LET p0 == "medium"
        p1 == IF KeywordHit(email) THEN "high" ELSE p0
    IN  IF DomainHit(email) THEN "high" ELSE p1

\* EmailNotification with the local action_required written to the row
EmailNotificationFlagged(notifs, email, now) ==
    Append(notifs,
        [NotificationRow("email",
            [fmt |-> "New email: {}...", arg |-> Take(email.subject, TitleLimit)],
            [fmt |-> "From: {}\n{}...",
             args |-> <<email.sender, Take(email.snippet, MessageLimit)>>],
            Classify(email), now)
         EXCEPT !.action_required = KeywordHit(email)])

\* The notification of one email. The local action_required is computed and not
\* passed on: the row keeps the column's default.
EmailNotification(notifs, email, now) ==
    create_notification(notifs, "email",
        [fmt |-> "New email: {}...", arg |-> Take(email.subject, TitleLimit)],
        [fmt |-> "From: {}\n{}...",
         args |-> <<email.sender, Take(email.snippet, MessageLimit)>>],
        Classify(email), now)

RECURSIVE AnalyzeCarrying(_, _, _, _)
\* the loop with priority set before it and not again for each email
AnalyzeCarrying(notifs, batch, now, priority) ==
    IF batch = << >> THEN notifs
    ELSE LET email == Head(batch)
             p == IF priority = "high" THEN "high" ELSE Classify(email)
         IN  AnalyzeCarrying(
                 create_notification(notifs, "email",
                     [fmt |-> "New email: {}...", arg |-> Take(email.subject, TitleLimit)],
                     [fmt |-> "From: {}\n{}...",
                      args |-> <<email.sender, Take(email.snippet, MessageLimit)>>],
                     p, now),
                 Tail(batch), now, p)

analyze_emails_carrying(notifs, batch, now) == AnalyzeCarrying(notifs, batch, now, "medium")

\* GmailIntegrator.analyze_emails_for_notifications
RECURSIVE analyze_emails_for_notifications(_, _, _)
analyze_emails_for_notifications(notifs, batch, now) ==
    IF batch = << >> THEN notifs
    ELSE analyze_emails_for_notifications(
             EmailNotification(notifs, Head(batch), now), Tail(batch), now)


(***************************************************************************)
(* Mailbox Poller.                                                         *)
(***************************************************************************)
DigitChars == <<"0","1","2","3","4","5","6","7","8","9">>

\* str(n) for n >= 0
RECURSIVE NumText(_)
NumText(n) ==
    IF n < 10 THEN <<DigitChars[n + 1]>>
    ELSE NumText(n \div 10) \o <<DigitChars[(n % 10) + 1]>>

\* The dict fetch_recent_emails builds for a message: the body is cut to
\* BodyLimit characters, and is the snippet when the message has no body.
email_info(m) ==
    [gmail_id |-> m.id, sender |-> m.sender, subject |-> m.subject,
     snippet |-> m.snippet,
     body |-> IF m.body # << >> THEN Take(m.body, BodyLimit) ELSE m.snippet,
     labels |-> m.labels, date |-> m.date]

\* The loop of fetch_recent_emails over the listed messages: each is saved with
\* the body as extracted.
RECURSIVE SaveAll(_, _, _)
SaveAll(store, batch, now) ==
    IF batch = << >> THEN store
    ELSE SaveAll(add_email(store, Head(batch).id, Head(batch).sender,
                           Head(batch).subject, Head(batch).snippet,
                           Head(batch).body, Head(batch).labels, now),
                 Tail(batch), now)

fetch_recent_emails_partial(store, svc, batch, outcome, now) ==
    IF ~svc /\ outcome.kind = "setup_fail"
    THEN [store |-> store, service |-> FALSE, returned |-> << >>]
    ELSE IF outcome.kind = "list_fail"
    THEN [store |-> store, service |-> TRUE, returned |-> << >>]
    ELSE IF outcome.kind \in {"get_fail", "save_fail"}
    THEN [store |-> SaveAll(store, SubSeq(batch, 1, outcome.at - 1), now),
          service |-> TRUE,
          returned |-> [k \in 1..outcome.at - 1 |-> email_info(batch[k])]]
    ELSE [store |-> SaveAll(store, batch, now), service |-> TRUE,
          returned |-> [k \in 1..Len(batch) |-> email_info(batch[k])]]

\* fetch_recent_emails as one transaction: a failure rolls the inserts back
fetch_recent_emails_atomic(store, svc, batch, outcome, now) ==
    IF ~svc /\ outcome.kind = "setup_fail"
    THEN [store |-> store, service |-> FALSE, returned |-> << >>]
    ELSE IF outcome.kind \in {"list_fail", "get_fail", "save_fail"}
    THEN [store |-> store, service |-> TRUE, returned |-> << >>]
    ELSE [store |-> SaveAll(store, batch, now), service |-> TRUE,
          returned |-> [k \in 1..Len(batch) |-> email_info(batch[k])]]

\* GmailIntegrator.fetch_recent_emails on a mailbox that lists batch. outcome is
\* what the calls it makes do: "setup_fail" (setup_gmail_api returns False),
\* "list_fail" (the listing raises), "get_fail" (getting or parsing message
\* number at raises), "save_fail" (the insert of message number at raises a
\* storage error). In the last two the messages before it were saved, and the
\* except clause returns the empty list. Any other outcome is a fetch that
\* succeeds.
fetch_recent_emails(store, svc, batch, outcome, now) ==
    IF ~svc /\ outcome.kind = "setup_fail"
    THEN [store |-> store, service |-> FALSE, returned |-> << >>]
    ELSE IF outcome.kind = "list_fail"
    THEN [store |-> store, service |-> TRUE, returned |-> << >>]
    ELSE IF outcome.kind \in {"get_fail", "save_fail"}
    THEN [store |-> SaveAll(store, SubSeq(batch, 1, outcome.at - 1), now),
          service |-> TRUE, returned |-> << >>]
    ELSE [store |-> SaveAll(store, batch, now), service |-> TRUE,
          returned |-> [k \in 1..Len(batch) |-> email_info(batch[k])]]

NotifyNewEmailsOnce(notifs, returned, now) ==
    LET Fresh(e) == \A k \in 1..Len(notifs) :
                        notifs[k].type = "email" =>
                            notifs[k].title.arg # Take(e.subject, TitleLimit)
        fresh == SelectSeq(returned, Fresh)
    IN  IF fresh # << >>
        THEN create_notification(
                 analyze_emails_for_notifications(notifs, fresh, now),
                 "email_summary",
                 [fmt |-> "Email Summary: {} new emails", arg |-> NumText(Len(fresh))],
                 [fmt |-> "You have {} new unread emails in the last hour",
                  args |-> <<NumText(Len(fresh))>>],
                 "medium", now)
        ELSE notifs

\* GmailIntegrator.check_and_notify_new_emails, after the fetch: the
\* notifications of the emails returned and the summary notification
NotifyNewEmails(notifs, returned, now) ==
    IF returned # << >>
    THEN create_notification(
             analyze_emails_for_notifications(notifs, returned, now),
             "email_summary",
             [fmt |-> "Email Summary: {} new emails", arg |-> NumText(Len(returned))],
             [fmt |-> "You have {} new unread emails in the last hour",
              args |-> <<NumText(Len(returned))>>],
             "medium", now)
    ELSE notifs

\* check_and_notify_new_emails when an insert of a notification may raise a
\* storage error: with outcome "notify_fail" insert number at of the poll
\* raises, the ones before it are committed, and nothing catches the error.
check_and_notify_new_emails(notifs, returned, outcome, now) ==
    LET all == NotifyNewEmails(notifs, returned, now)
    IN  IF outcome.kind = "notify_fail" /\ outcome.at <= Len(all) - Len(notifs)
        THEN [notifs |-> SubSeq(all, 1, Len(notifs) + outcome.at - 1), raised |-> TRUE]
        ELSE [notifs |-> all, raised |-> FALSE]

\* What the remote mailbox may hold.
RemoteIds == {"m1", "m2"}

\* A body one character over the limit of email_info.
LongBody == [k \in 1..BodyLimit + 1 |-> "x"]

RemoteContents == {
    [sender |-> <<"b","o","b","@","g","m","a","i","l",".","c","o","m">>, subject |-> <<"L","u","n","c","h">>, snippet |-> <<"s","e","e"," ","y","o","u">>,
     body |-> LongBody, labels |-> <<"INBOX", "UNREAD">>, date |-> NoText],
    [sender |-> <<"B","o","s","s"," ","<","b","o","s","s","@","w","o","r","k",".","c","o","m",">">>, subject |-> <<"R","e",":"," ","p","l","a","n">>, snippet |-> <<"s","e","e"," ","y","o","u">>,
     body |-> NoText, labels |-> << >>, date |-> NoText] }

RemoteMessages ==
    {[id |-> i, sender |-> c.sender, subject |-> c.subject, snippet |-> c.snippet,
      body |-> c.body, labels |-> c.labels, date |-> c.date] :
        i \in RemoteIds, c \in RemoteContents}

DistinctIds(batch) ==
    \A a, b \in 1..Len(batch) : a # b => batch[a].id # batch[b].id

\* The listings of at most MaxBatch messages, each id listed once; the empty
\* listing is a mailbox with no new mail.
MailboxListings ==
    {b \in UNION {[1..n -> RemoteMessages] : n \in 0..MaxBatch} : DistinctIds(b)}

FetchOutcomes(svc, batch) ==
    {[kind |-> "ok", at |-> 0], [kind |-> "list_fail", at |-> 0]}
        \cup (IF svc THEN {} ELSE {[kind |-> "setup_fail", at |-> 0]})
        \cup {[kind |-> "get_fail", at |-> k] : k \in 1..Len(batch)}
        \cup {[kind |-> "save_fail", at |-> k] : k \in 1..Len(batch)}
        \cup (IF batch = << >> THEN {}
              ELSE {[kind |-> "notify_fail", at |-> k] : k \in 1..Len(batch) + 1})

StoredIds(store) == {store[k].gmail_id : k \in 1..Len(store)}

\* Console menu, choice 1: check_and_notify_new_emails
CheckEmails ==
    /\ menu_pc = "menu"
    /\ \E batch \in MailboxListings :
        /\ Len(notifications) + Len(batch) + 1 <= MaxNotifs
        /\ \E outcome \in FetchOutcomes(service, batch) :
            \E f \in {fetch_recent_emails(emails, service, batch, outcome, clock)} :
            \E n \in {check_and_notify_new_emails(notifications, f.returned, outcome, clock)} :
                /\ emails' = f.store
                /\ service' = f.service
                /\ notifications' = n.notifs
                /\ result' = [op |-> "check_emails", outcome |-> outcome,
                              listed |-> [k \in 1..Len(batch) |-> batch[k].id],
                              returned |-> f.returned, raised |-> n.raised]
    /\ UNCHANGED <<study_sessions, clock, menu_pc, scheduler>>

NextMail == Tick \/ CheckEmails

SpecMail == Init /\ [][NextMail]_vars

(***************************************************************************)
(* The analyzer called on emails of many shapes.                           *)
(***************************************************************************)
SubjectInputs == {<<"U","R","G","E","N","T">>, <<"L","u","n","c","h">>, <<"R","e","s","u","b","m","i","t","t","e","d">>, <<"u","r","g">>}

SnippetInputs == {<<"e","n","t"," ","n","o","w">>, <<"s","e","e"," ","y","o","u">>, <<"Y","o","u","r"," ","I","n","v","o","i","c","e">>}

SenderInputs == {<<"U","n","k","n","o","w","n">>, <<"b","o","b","@","g","m","a","i","l",".","c","o","m">>, <<"B","o","s","s"," ","<","b","o","s","s","@","w","o","r","k",".","c","o","m",">">>, <<"e","v","e","@","n","o","t","w","o","r","k",".","c","o","m">>}

EmailInputs ==
    {[gmail_id |-> "m1", sender |-> sd, subject |-> sj, snippet |-> sn,
      body |-> sn, labels |-> << >>, date |-> NoText] :
        sd \in SenderInputs, sj \in SubjectInputs, sn \in SnippetInputs}

AnalyzeEmails ==
    /\ \E n \in 1..MaxBatch : \E batch \in [1..n -> EmailInputs] :
        /\ Len(notifications) + n <= MaxClassified
        /\ notifications' = analyze_emails_for_notifications(notifications, batch, clock)
        /\ result' = [op |-> "analyze", emails |-> batch]
    /\ UNCHANGED <<emails, study_sessions, service, clock, menu_pc, scheduler>>

NextClassify == AnalyzeEmails

SpecClassify == Init /\ [][NextClassify]_vars


(***************************************************************************)
(* Study Advisor.                                                          *)
(***************************************************************************)
\* study_topics['nlp']['beginner']
NlpBeginner == <<
    <<"T","e","x","t"," ","p","r","e","p","r","o","c","e","s","s","i","n","g">>,
    <<"T","o","k","e","n","i","z","a","t","i","o","n">>,
    <<"S","t","o","p"," ","w","o","r","d","s"," ","r","e","m","o","v","a","l">>,
    <<"S","t","e","m","m","i","n","g"," ","a","n","d"," ","L","e","m","m","a","t","i","z","a","t","i","o","n">>,
    <<"B","a","g"," ","o","f"," ","W","o","r","d","s">>,
    <<"T","F","-","I","D","F">> >>

\* study_topics['nlp']['intermediate']
NlpIntermediate == <<
    <<"W","o","r","d"," ","e","m","b","e","d","d","i","n","g","s">>,
    <<"W","o","r","d","2","V","e","c">>,
    <<"G","l","o","V","e">>,
    <<"S","e","n","t","i","m","e","n","t"," ","a","n","a","l","y","s","i","s">>,
    <<"N","a","m","e","d"," ","E","n","t","i","t","y"," ","R","e","c","o","g","n","i","t","i","o","n">>,
    <<"P","a","r","t","-","o","f","-","s","p","e","e","c","h"," ","t","a","g","g","i","n","g">> >>

\* study_topics['nlp']['advanced']
NlpAdvanced == <<
    <<"B","E","R","T"," ","a","n","d"," ","T","r","a","n","s","f","o","r","m","e","r","s">>,
    <<"G","P","T"," ","m","o","d","e","l","s">>,
    <<"A","t","t","e","n","t","i","o","n"," ","m","e","c","h","a","n","i","s","m">>,
    <<"S","e","q","u","e","n","c","e","-","t","o","-","s","e","q","u","e","n","c","e"," ","m","o","d","e","l","s">>,
    <<"T","r","a","n","s","f","e","r"," ","l","e","a","r","n","i","n","g"," ","i","n"," ","N","L","P">> >>

\* study_topics['python']['beginner']
PythonBeginner == <<
    <<"V","a","r","i","a","b","l","e","s"," ","a","n","d"," ","d","a","t","a"," ","t","y","p","e","s">>,
    <<"C","o","n","t","r","o","l"," ","s","t","r","u","c","t","u","r","e","s">>,
    <<"F","u","n","c","t","i","o","n","s">>,
    <<"L","i","s","t","s"," ","a","n","d"," ","d","i","c","t","i","o","n","a","r","i","e","s">>,
    <<"F","i","l","e"," ","h","a","n","d","l","i","n","g">>,
    <<"E","x","c","e","p","t","i","o","n"," ","h","a","n","d","l","i","n","g">> >>

\* study_topics['python']['intermediate']
PythonIntermediate == <<
    <<"O","b","j","e","c","t","-","o","r","i","e","n","t","e","d"," ","p","r","o","g","r","a","m","m","i","n","g">>,
    <<"D","e","c","o","r","a","t","o","r","s">>,
    <<"G","e","n","e","r","a","t","o","r","s">>,
    <<"R","e","g","u","l","a","r"," ","e","x","p","r","e","s","s","i","o","n","s">>,
    <<"W","o","r","k","i","n","g"," ","w","i","t","h"," ","A","P","I","s">>,
    <<"D","a","t","a","b","a","s","e"," ","c","o","n","n","e","c","t","i","o","n","s">> >>

\* study_topics['python']['advanced']
PythonAdvanced == <<
    <<"M","e","t","a","c","l","a","s","s","e","s">>,
    <<"A","s","y","n","c"," ","p","r","o","g","r","a","m","m","i","n","g">>,
    <<"P","e","r","f","o","r","m","a","n","c","e"," ","o","p","t","i","m","i","z","a","t","i","o","n">>,
    <<"D","e","s","i","g","n"," ","p","a","t","t","e","r","n","s">>,
    <<"T","e","s","t","i","n","g"," ","f","r","a","m","e","w","o","r","k","s">>,
    <<"P","a","c","k","a","g","e"," ","d","e","v","e","l","o","p","m","e","n","t">> >>

\* study_topics['machine_learning']['beginner']
MachineLearningBeginner == <<
    <<"S","u","p","e","r","v","i","s","e","d"," ","v","s"," ","U","n","s","u","p","e","r","v","i","s","e","d"," ","l","e","a","r","n","i","n","g">>,
    <<"L","i","n","e","a","r"," ","r","e","g","r","e","s","s","i","o","n">>,
    <<"L","o","g","i","s","t","i","c"," ","r","e","g","r","e","s","s","i","o","n">>,
    <<"D","e","c","i","s","i","o","n"," ","t","r","e","e","s">>,
    <<"C","r","o","s","s","-","v","a","l","i","d","a","t","i","o","n">> >>

\* study_topics['machine_learning']['intermediate']
MachineLearningIntermediate == <<
    <<"R","a","n","d","o","m"," ","f","o","r","e","s","t","s">>,
    <<"S","V","M">>,
    <<"K","-","m","e","a","n","s"," ","c","l","u","s","t","e","r","i","n","g">>,
    <<"N","e","u","r","a","l"," ","n","e","t","w","o","r","k","s">>,
    <<"F","e","a","t","u","r","e"," ","e","n","g","i","n","e","e","r","i","n","g">>,
    <<"M","o","d","e","l"," ","e","v","a","l","u","a","t","i","o","n"," ","m","e","t","r","i","c","s">> >>

\* study_topics['machine_learning']['advanced']
MachineLearningAdvanced == <<
    <<"D","e","e","p"," ","l","e","a","r","n","i","n","g">>,
    <<"C","o","n","v","o","l","u","t","i","o","n","a","l"," ","n","e","t","w","o","r","k","s">>,
    <<"R","e","c","u","r","r","e","n","t"," ","n","e","t","w","o","r","k","s">>,
    <<"E","n","s","e","m","b","l","e"," ","m","e","t","h","o","d","s">>,
    <<"H","y","p","e","r","p","a","r","a","m","e","t","e","r"," ","t","u","n","i","n","g">>,
    <<"M","L","O","p","s">> >>

KeyNlp == <<"n","l","p">>

KeyPython == <<"p","y","t","h","o","n">>

KeyMachineLearning == <<"m","a","c","h","i","n","e","_","l","e","a","r","n","i","n","g">>

\* self.study_topics.get(key, {}).get(level, [])
study_topics(key, level) ==
    IF key = KeyNlp THEN
        (IF level = "beginner" THEN NlpBeginner
         ELSE IF level = "intermediate" THEN NlpIntermediate
         ELSE IF level = "advanced" THEN NlpAdvanced ELSE << >>)
    ELSE IF key = KeyPython THEN
        (IF level = "beginner" THEN PythonBeginner
         ELSE IF level = "intermediate" THEN PythonIntermediate
         ELSE IF level = "advanced" THEN PythonAdvanced ELSE << >>)
    ELSE IF key = KeyMachineLearning THEN
        (IF level = "beginner" THEN MachineLearningBeginner
         ELSE IF level = "intermediate" THEN MachineLearningIntermediate
         ELSE IF level = "advanced" THEN MachineLearningAdvanced ELSE << >>)
    ELSE << >>

\* PersonalAssistantDB.log_study_session: one more row, dated today
log_study_session(sessions, subject, topic, duration_minutes, study_type, today) ==
    sessions (+) SetToBag({[subject |-> subject, topic |-> topic,
                            duration_minutes |-> duration_minutes,
                            study_type |-> study_type, session_date |-> today]})

\* The attributes a PersonalAssistantDB object has: db_path, set by __init__,
\* and the methods of the class.
DbAttributes ==
    {"db_path", "init_database", "add_email", "create_notification",
     "log_study_session", "add_learning_resource", "create_coding_project",
     "log_nlp_task", "get_pending_notifications", "get_study_progress"}

RecentDays == 7

RecentLimit == 5

\* The rows of the bag, one element a copy.
SessionRows(sessions) ==
    UNION {{<<r, c>> : c \in 1..sessions[r]} : r \in DOMAIN sessions}

\* SELECT topic FROM study_sessions WHERE subject = ? AND session_date >= ?
\* ORDER BY session_date DESC LIMIT 5: the sets of rows the query may return;
\* rows of one date come in an order SQL leaves open.
RecentSelections(sessions, subject, today) ==
    LET rows == {x \in SessionRows(sessions) :
                    /\ x[1].subject = subject
                    /\ x[1].session_date >= today - RecentDays}
        n == IF Cardinality(rows) < RecentLimit THEN Cardinality(rows) ELSE RecentLimit
    IN  {T \in SUBSET rows :
            /\ Cardinality(T) = n
            /\ \A x \in T : \A y \in rows \ T :
                y[1].session_date <= x[1].session_date}

\* StudyAssistant.suggest_study_topic: what a call may return or raise. The
\* first statement reads self.db.db, an attribute self.db does not have.
suggest_study_topic(sessions, subject, level, today) ==
    IF "db" \notin DbAttributes
    THEN {[kind |-> "raise", text |-> "AttributeError", topic |-> NoText]}
    ELSE UNION {
        LET recent_topics == {x[1].topic : x \in T}
            available_topics == study_topics(Lower(subject), level)
            unstudied_topics == {available_topics[k] : k \in 1..Len(available_topics)}
                                    \ recent_topics
        IN  IF available_topics = << >>
            THEN {[kind |-> "placeholder", text |-> "No topics available for {} at {} level",
                   topic |-> NoText]}
            ELSE IF unstudied_topics = {}
            THEN {[kind |-> "review", text |-> "Consider reviewing: {}", topic |-> t] :
                    t \in recent_topics}
            ELSE {[kind |-> "fresh", text |-> "{}", topic |-> t] : t \in unstudied_topics}
        : T \in RecentSelections(sessions, subject, today)}

\* A night passes, or several.
DayJumps == {7, 8}

NextDay ==
    /\ \E d \in DayJumps :
        /\ clock.day + d <= MaxDay
        /\ clock' = [day |-> clock.day + d, sec |-> 0]
    /\ result' = [op |-> "next_day"]
    /\ UNCHANGED <<emails, notifications, study_sessions, service, menu_pc, scheduler>>

LogSubjects == {KeyMachineLearning}

LogTopics == {MachineLearningBeginner[k] : k \in 1..Len(MachineLearningBeginner)}

DurationInputs == {45}

\* Persistence Gateway: an insert of a study session.
LogStudySession ==
    /\ BagCardinality(study_sessions) < MaxSessions
    /\ \E subject \in LogSubjects, topic \in LogTopics, minutes \in DurationInputs :
        study_sessions' = log_study_session(study_sessions, subject, topic,
                                            minutes, "reading", clock.day)
    /\ result' = [op |-> "log_study_session",
                  session_id |-> BagCardinality(study_sessions) + 1]
    /\ UNCHANGED <<emails, notifications, service, clock, menu_pc, scheduler>>

SuggestSubjects == {KeyMachineLearning, <<"c","o","o","k","i","n","g">>}

LevelInputs == {"beginner", "expert"}

\* Study menu, choice 1: suggest_study_topic
SuggestStudyTopic ==
    /\ \E subject \in SuggestSubjects, level \in LevelInputs :
        \E out \in suggest_study_topic(study_sessions, subject, level, clock.day) :
            result' = [op |-> "suggest", subject |-> subject, level |-> level,
                       out |-> out]
    /\ UNCHANGED <<emails, notifications, study_sessions, service, clock, menu_pc, scheduler>>

RECURSIVE SumMinutes(_, _)
\* SUM(duration_minutes) over the rows in rows, each as often as it is stored
SumMinutes(sessions, rows) ==
    IF rows = {} THEN 0
    ELSE LET r == CHOOSE x \in rows : TRUE
         IN  sessions[r] * r.duration_minutes + SumMinutes(sessions, rows \ {r})

\* The names the module study_learning_assit binds: its imports and its
\* classes and functions.
ModuleNames ==
    {"random", "json", "datetime", "timedelta", "os", "re", "StudyAssistant",
     "NLPLearningAssistant", "main_study_interface"}

RecommendationDays == 14

\* One row of the GROUP BY subject of get_study_recommendations
ActivityRow(sessions, subject, since) ==
    LET rows == {r \in DOMAIN sessions : r.subject = subject /\ r.session_date >= since}
    IN  [subject |-> subject,
         sessions |-> BagCardinality([r \in rows |-> sessions[r]]),
         total_minutes |-> SumMinutes(sessions, rows),
         last_session |-> CHOOSE d \in {r.session_date : r \in rows} :
                            \A r \in rows : r.session_date <= d]

RECURSIVE ActivityOrders(_)
\* The orders ORDER BY last_session DESC allows for the rows in rows
ActivityOrders(rows) ==
    IF rows = {} THEN {<< >>}
    ELSE UNION {{<<r>> \o rest : rest \in ActivityOrders(rows \ {r})} :
                r \in {x \in rows : \A y \in rows : y.last_session <= x.last_session}}

\* The recommendations of one subject: consistency, then duration
SubjectRecommendations(row, today) ==
    (IF today - row.last_session > 3
     THEN <<[type |-> "consistency", subject |-> row.subject]>> ELSE << >>)
    \o (IF row.total_minutes < 30 * row.sessions
        THEN <<[type |-> "duration", subject |-> row.subject]>> ELSE << >>)

RECURSIVE RecommendationsOf(_, _, _)
RecommendationsOf(activity, n, today) ==
    IF n = 0 THEN << >>
    ELSE RecommendationsOf(activity, n - 1, today)
            \o SubjectRecommendations(activity[n], today)

\* StudyAssistant.get_study_recommendations: the outcomes of a call
get_study_recommendations(sessions, today) ==
    IF "sqlite3" \notin ModuleNames
    THEN {[kind |-> "raise", text |-> "NameError", recommendations |-> << >>]}
    ELSE {[kind |-> "ok", text |-> "",
           recommendations |->
                IF recent_activity = << >>
                THEN <<[type |-> "start_studying", subject |-> NoText]>>
                ELSE RecommendationsOf(recent_activity, Len(recent_activity), today)] :
            recent_activity \in ActivityOrders(
                {ActivityRow(sessions, subject, today - RecommendationDays) :
                    subject \in {r.subject : r \in {x \in DOMAIN sessions :
                        x.session_date >= today - RecommendationDays}}})}

\* Study menu, choice 6: get_study_recommendations
GetStudyRecommendations ==
    /\ \E out \in get_study_recommendations(study_sessions, clock.day) :
        result' = [op |-> "recommendations", out |-> out]
    /\ UNCHANGED <<emails, notifications, study_sessions, service, clock, menu_pc, scheduler>>

NextStudy == NextDay \/ LogStudySession \/ SuggestStudyTopic \/ GetStudyRecommendations

SpecStudy == Init /\ [][NextStudy]_vars

(***************************************************************************)
(* Study plans.                                                            *)
(***************************************************************************)
MaxWeeks == 19

Levels == <<"beginner", "intermediate", "advanced">>

\* [(topic, level) for topic in level_topics]
LevelPairs(key, level) ==
    [k \in 1..Len(study_topics(key, level)) |-> <<study_topics(key, level)[k], level>>]

\* topics, after the loop over the three levels
FlattenedTopics(subject) ==
    LevelPairs(Lower(subject), Levels[1]) \o LevelPairs(Lower(subject), Levels[2])
        \o LevelPairs(Lower(subject), Levels[3])

Min(a, b) == IF a < b THEN a ELSE b

\* round(num / den, 1) in tenths; a tie goes to the even tenth. With whole
\* hours and at most 18 topics a week every tie is a multiple of 0.25, which
\* a float holds exactly.
RoundTenths(num, den) ==
    LET q == (10 * num) \div den
        r == (10 * num) % den
    IN  IF 2 * r < den THEN q
        ELSE IF 2 * r > den THEN q + 1
        ELSE IF q % 2 = 0 THEN q ELSE q + 1

topics_per_week_ceiling(topics, weeks) ==
    IF topics # << >> THEN (Len(topics) + weeks - 1) \div weeks ELSE 1

\* len(topics) // weeks if topics else 1
topics_per_week(topics, weeks) ==
    IF topics # << >> THEN Len(topics) \div weeks ELSE 1

division_faults_unconditional(topics, weeks) == weeks = 0

\* len(topics) // weeks is evaluated only for a non-empty topic list
division_faults(topics, weeks) == topics # << >> /\ weeks = 0

\* StudyAssistant.create_study_plan: the plan returned, or the error raised.
\* estimated_hours is kept as the fraction num / den.
create_study_plan(subject, hours_per_week, weeks) ==
    LET topics == FlattenedTopics(subject)
    IN  IF division_faults(topics, weeks)
        THEN [kind |-> "raise", text |-> "ZeroDivisionError"]
        ELSE
        LET tpw == topics_per_week(topics, weeks)
            den == IF tpw > 0 THEN tpw ELSE 1
            week_topics(week) ==
                SubSeq(topics, week * tpw + 1, Min((week + 1) * tpw, Len(topics)))
        IN  [kind |-> "plan",
             plan |-> [subject |-> subject, duration_weeks |-> weeks,
                       hours_per_week |-> hours_per_week,
                       hours_per_topic |-> RoundTenths(hours_per_week, den),
                       weekly_schedule |->
                           [w \in 1..weeks |->
                               [week |-> w,
                                topics |-> week_topics(w - 1),
                                estimated_hours |->
                                    [num |-> Len(week_topics(w - 1)) * hours_per_week,
                                     den |-> den]]]]]

PlanSubjects == {KeyNlp, <<"P","y","t","h","o","n">>, KeyMachineLearning, <<"c","o","o","k","i","n","g">>}

HoursInputs == {1, 5, 10}

WeeksInputs == 0..MaxWeeks

\* Study menu, choice 3: create_study_plan
CreateStudyPlan ==
    /\ \E subject \in PlanSubjects, hours \in HoursInputs, weeks \in WeeksInputs :
        result' = [op |-> "study_plan", subject |-> subject, hours |-> hours,
                   weeks |-> weeks, out |-> create_study_plan(subject, hours, weeks)]
    /\ UNCHANGED <<emails, notifications, study_sessions, service, clock, menu_pc, scheduler>>

NextPlan == CreateStudyPlan

SpecPlan == Init /\ [][NextPlan]_vars

(***************************************************************************)
(* Orchestrator: the timer handlers and the background scheduler thread.   *)
(***************************************************************************)
MaxFirings == 2      \* times a timer comes due

email_check_interval == 30

daily_study_goal == 60

study_reminder_times == <<"09:00", "14:00", "19:00">>

\* The jobs start_background_services registers with the scheduler.
Jobs ==
    {[handler |-> "check_emails_background", at |-> "every"]}
        \cup {[handler |-> "create_study_reminder", at |-> study_reminder_times[k]] :
                k \in 1..Len(study_reminder_times)}
        \cup {[handler |-> "daily_progress_review", at |-> "20:00"]}

\* SELECT SUM(duration_minutes) FROM study_sessions WHERE session_date = ?,
\* or 0
today_minutes(sessions, today) ==
    SumMinutes(sessions, {r \in DOMAIN sessions : r.session_date = today})

\* subject.lower().replace(' ', '_')
ReminderKey(subject) ==
    [i \in 1..Len(subject) |-> IF subject[i] = " " THEN "_" ELSE LowerChar(subject[i])]

ReminderSubjects == {<<"n","l","p">>, <<"c","o","d","i","n","g">>, <<"p","y","t","h","o","n">>, <<"m","a","c","h","i","n","e","_","l","e","a","r","n","i","n","g">>}

\* NotificationManager.create_study_reminder; time_str is not used
create_study_reminder(notifs, subject, time_str, now) ==
    create_notification(notifs, "study_reminder",
        [fmt |-> "Study Reminder: {}", arg |-> subject],
        IF ReminderKey(subject) \in ReminderSubjects
        THEN [fmt |-> "messages[{}]", args |-> <<ReminderKey(subject)>>]
        ELSE [fmt |-> "Time to study {}!", args |-> <<subject>>],
        "medium", now)

GeneralStudy == <<"G","e","n","e","r","a","l"," ","S","t","u","d","y">>

\* StudyReminderHandler that adds no reminder while one is pending
StudyReminderHandlerOnce(notifs, sessions, now) ==
    IF /\ today_minutes(sessions, now.day) < daily_study_goal
       /\ \A k \in 1..Len(notifs) :
            notifs[k].type = "study_reminder" => notifs[k].is_read
    THEN create_study_reminder(notifs, GeneralStudy,
             [fmt |-> "You need {} more minutes to reach your daily goal!",
              args |-> <<NumText(daily_study_goal - today_minutes(sessions, now.day))>>],
             now)
    ELSE notifs

\* PersonalAssistant.create_study_reminder: a reminder when today's minutes
\* are short of the goal
StudyReminderHandler(notifs, sessions, now) ==
    IF today_minutes(sessions, now.day) < daily_study_goal
    THEN create_study_reminder(notifs, GeneralStudy,
             [fmt |-> "You need {} more minutes to reach your daily goal!",
              args |-> <<NumText(daily_study_goal - today_minutes(sessions, now.day))>>],
             now)
    ELSE notifs

\* One row of get_study_progress: subject, COUNT(*), SUM(duration_minutes)
ProgressRow(sessions, subject, since) ==
    LET rows == {r \in DOMAIN sessions : r.subject = subject /\ r.session_date >= since}
    IN  [subject |-> subject,
         sessions |-> BagCardinality([r \in rows |-> sessions[r]]),
         total_minutes |-> SumMinutes(sessions, rows)]

RECURSIVE ProgressOrders(_)
\* The orders ORDER BY total_minutes DESC allows for the rows in rows
ProgressOrders(rows) ==
    IF rows = {} THEN {<< >>}
    ELSE UNION {{<<r>> \o rest : rest \in ProgressOrders(rows \ {r})} :
                r \in {x \in rows : \A y \in rows : y.total_minutes <= x.total_minutes}}

\* PersonalAssistantDB.get_study_progress without a subject
get_study_progress(sessions, days, today) ==
    ProgressOrders({ProgressRow(sessions, subject, today - days) :
        subject \in {r.subject : r \in {x \in DOMAIN sessions :
                                            x.session_date >= today - days}}})

RECURSIVE TotalOf(_, _)
TotalOf(progress, n) ==
    IF n = 0 THEN 0 ELSE TotalOf(progress, n - 1) + progress[n].total_minutes

\* f"{x:.1f}" of tenths tenths
TenthsText(tenths) == NumText(tenths \div 10) \o <<".">> \o NumText(tenths % 10)

\* PersonalAssistant.daily_progress_review. The hours are exact for totals
\* that are multiples of 15 minutes.
DailyReviewHandler(notifs, progress, now) ==
    create_notification(notifs, "daily_summary",
        [fmt |-> "Daily Progress Review", arg |-> NoText],
        IF progress # << >>
        THEN [fmt |-> "Daily Summary: {}h studied across {}",
              args |-> <<TenthsText(RoundTenths(TotalOf(progress, Len(progress)), 60))>>
                        \o [k \in 1..Len(progress) |-> progress[k].subject]]
        ELSE [fmt |-> "Daily Summary: No study sessions today. Tomorrow is a new day!",
              args |-> << >>],
        "low", now)

PollKinds == {"ok", "setup_fail", "list_fail", "get_fail", "save_fail", "notify_fail"}

\* How the handler of a job may end: a poll in one of the ways of PollKinds,
\* the other handlers in one way.
EndingsOf(handler) == IF handler = "check_emails_background" THEN PollKinds ELSE {"none"}

\* What the handler of a job does to the tables, from its call to its return.
\* check_emails_background catches what the poll raises.
HandlerBody(handler, kind) ==
    IF handler = "check_emails_background"
    THEN \E batch \in MailboxListings :
            /\ Len(notifications) + Len(batch) + 1 <= MaxNotifs
            /\ \E outcome \in {o \in FetchOutcomes(service, batch) : o.kind = kind} :
                \E f \in {fetch_recent_emails(emails, service, batch, outcome, clock)} :
                \E n \in {check_and_notify_new_emails(notifications, f.returned,
                                                       outcome, clock)} :
                    /\ emails' = f.store
                    /\ service' = f.service
                    /\ notifications' = n.notifs
    ELSE IF handler = "create_study_reminder"
    THEN /\ Len(notifications) < MaxNotifs
         /\ notifications' = StudyReminderHandler(notifications, study_sessions, clock)
         /\ UNCHANGED <<emails, service>>
    ELSE /\ Len(notifications) < MaxNotifs
         /\ \E progress \in get_study_progress(study_sessions, 1, clock.day) :
                notifications' = DailyReviewHandler(notifications, progress, clock)
         /\ UNCHANGED <<emails, service>>

\* main_menu: start_background_services starts the scheduler thread, which
\* begins with a call of run_pending
StartBackgroundServices ==
    /\ scheduler.pc = "off"
    /\ scheduler' = [scheduler EXCEPT !.pc = "sleep"]
    /\ result' = [op |-> "start_background_services"]
    /\ UNCHANGED <<emails, notifications, study_sessions, service, clock, menu_pc>>

\* The time of a job comes: the job is due until it is run.
TimerDue ==
    /\ scheduler.pc # "off"
    /\ scheduler.fired < MaxFirings
    /\ \E job \in Jobs \ scheduler.due :
        scheduler' = [scheduler EXCEPT !.due = @ \cup {job}, !.fired = @ + 1]
    /\ result' = [op |-> "timer_due"]
    /\ UNCHANGED <<emails, notifications, study_sessions, service, clock, menu_pc>>

RECURSIVE JobOrders(_)
JobOrders(jobs) ==
    IF jobs = {} THEN {<< >>}
    ELSE UNION {{<<j>> \o rest : rest \in JobOrders(jobs \ {j})} : j \in jobs}

\* run_scheduler: time.sleep(60) returns and schedule.run_pending() takes the
\* jobs that are due, to run them one after the other
RunPending ==
    /\ scheduler.pc = "sleep"
    /\ \E todo \in JobOrders(scheduler.due) :
        scheduler' = [scheduler EXCEPT !.pc = "jobs", !.todo = todo]
    /\ result' = [op |-> "run_pending"]
    /\ UNCHANGED <<emails, notifications, study_sessions, service, clock, menu_pc>>

CanStartThreaded(s) == s.pc \in {"jobs", "handler"} /\ s.todo # << >>

\* run_pending calls the next job where it stands between two jobs
CanStart(s) == s.pc = "jobs" /\ s.todo # << >>

\* run_pending calls the handler of the next job
HandlerStart ==
    /\ CanStart(scheduler)
    /\ scheduler' = [scheduler EXCEPT !.pc = "handler",
                                      !.todo = Tail(@),
                                      !.due = @ \ {Head(scheduler.todo)},
                                      !.running = @ \cup {Head(scheduler.todo)}]
    /\ result' = [op |-> "handler_start", job |-> Head(scheduler.todo)]
    /\ UNCHANGED <<emails, notifications, study_sessions, service, clock, menu_pc>>

\* The handler returns to run_pending
HandlerReturn ==
    /\ scheduler.pc = "handler"
    /\ \E job \in scheduler.running : \E kind \in EndingsOf(job.handler) :
        /\ HandlerBody(job.handler, kind)
        /\ scheduler' = [scheduler EXCEPT
                            !.running = @ \ {job},
                            !.pc = IF scheduler.running = {job} THEN "jobs" ELSE "handler",
                            !.last_poll = IF kind = "none" THEN @ ELSE kind]
        /\ result' = [op |-> "handler_return", job |-> job]
    /\ UNCHANGED <<study_sessions, clock, menu_pc>>

\* The handlers that let an error out: create_study_reminder and
\* daily_progress_review have no try block, check_emails_background has.
LetsErrorsOut(handler) == handler # "check_emails_background"

\* A handler raises a storage error before its insert is committed: the
\* error leaves run_pending and run_scheduler, and the thread ends.
HandlerRaises ==
    /\ scheduler.pc = "handler"
    /\ \E job \in scheduler.running :
        /\ LetsErrorsOut(job.handler)
        /\ scheduler' = [scheduler EXCEPT !.running = @ \ {job}, !.pc = "dead"]
        /\ result' = [op |-> "handler_raise", job |-> job]
    /\ UNCHANGED <<emails, notifications, study_sessions, service, clock, menu_pc>>

\* run_pending has run its jobs and returns; the thread sleeps
Sleep ==
    /\ scheduler.pc = "jobs"
    /\ scheduler.todo = << >>
    /\ scheduler' = [scheduler EXCEPT !.pc = "sleep"]
    /\ result' = [op |-> "sleep"]
    /\ UNCHANGED <<emails, notifications, study_sessions, service, clock, menu_pc>>

NextScheduler ==
    \/ StartBackgroundServices
    \/ TimerDue
    \/ RunPending
    \/ HandlerStart
    \/ HandlerReturn
    \/ HandlerRaises
    \/ Sleep

SpecScheduler == Init /\ [][NextScheduler]_vars

MaxTracked == 2

\* StudyAssistant.track_study_session: the session is logged and an
\* achievement notification created
track_study_session(notifs, sessions, subject, topic, duration_minutes, now) ==
    [sessions |-> log_study_session(sessions, subject, topic, duration_minutes,
                                    "reading", now.day),
     notifs |-> create_notification(notifs, "study_achievement",
                    [fmt |-> "Study Session Completed!", arg |-> NoText],
                    [fmt |-> "Great job! You studied {} ({}) for {} hours",
                     args |-> <<topic, subject,
                                TenthsText(RoundTenths(duration_minutes, 60))>>],
                    "low", now)]

TrackTopics == {MachineLearningBeginner[1]}

\* Study menu, choice 2: track_study_session
TrackStudySession ==
    /\ BagCardinality(study_sessions) < MaxTracked
    /\ Len(notifications) < MaxNotifs
    /\ \E subject \in LogSubjects, topic \in TrackTopics, minutes \in DurationInputs :
        \E t \in {track_study_session(notifications, study_sessions, subject, topic,
                                      minutes, clock)} :
            /\ study_sessions' = t.sessions
            /\ notifications' = t.notifs
    /\ result' = [op |-> "track_study_session"]
    /\ UNCHANGED <<emails, service, clock, menu_pc, scheduler>>

\* The scheduler thread, and the console tracking study sessions meanwhile.
NextReminder == NextScheduler \/ TrackStudySession

SpecReminder == Init /\ [][NextReminder]_vars

(***************************************************************************)
(* Persistence Gateway: the schema.                                        *)
(***************************************************************************)
\* The tables of init_database, in the order of its CREATE statements.
TableNames == <<"emails", "notifications", "study_sessions", "learning_resources",
                "coding_projects", "nlp_tasks", "daily_goals", "assistant_interactions">>

\* DROP TABLE and CREATE TABLE: the table is there and empty
create_table_afresh(db, table) ==
    [t \in DOMAIN db \cup {table} |-> IF t = table THEN << >> ELSE db[t]]

\* CREATE TABLE IF NOT EXISTS on a store db, a function from the names of the
\* tables it has to their rows
create_table_if_not_exists(db, table) ==
    IF table \in DOMAIN db THEN db
    ELSE [t \in DOMAIN db \cup {table} |-> IF t = table THEN << >> ELSE db[t]]

RECURSIVE CreateTables(_, _)
CreateTables(db, n) ==
    IF n = 0 THEN db
    ELSE create_table_if_not_exists(CreateTables(db, n - 1), TableNames[n])

\* PersonalAssistantDB.init_database
init_database(db) == CreateTables(db, Len(TableNames))

\* The store as it stands: the three tables the model keeps rows of, and the
\* five no modelled operation writes.
CurrentStore ==
    [t \in {TableNames[k] : k \in 1..Len(TableNames)} |->
        IF t = "emails" THEN emails
        ELSE IF t = "notifications" THEN notifications
        ELSE IF t = "study_sessions" THEN study_sessions
        ELSE << >>]

\* PersonalAssistantDB() is constructed again on the store: when the study
\* menu opens, or at a restart.
InitDatabase ==
    /\ menu_pc = "menu"
    /\ \E db \in {init_database(CurrentStore)} :
        /\ emails' = db["emails"]
        /\ notifications' = db["notifications"]
        /\ study_sessions' = db["study_sessions"]
    /\ result' = [op |-> "init_database"]
    /\ UNCHANGED <<service, clock, menu_pc, scheduler>>

NextStore == InitDatabase \/ CreateNotification \/ Tick

SpecStore == Init /\ [][NextStore]_vars

(***************************************************************************)
(* Orchestrator: the dashboard.                                            *)
(***************************************************************************)
DashboardLimit == 5

DashboardShown == 3

DashboardSubjects == <<KeyNlp, KeyPython, KeyMachineLearning>>

\* PersonalAssistant.get_dashboard_info: what a call may return or raise. The
\* notification list is the query result cut to five; the loop over the main
\* subjects asks the Study Advisor for a beginner topic each.
get_dashboard_info(notifs, sessions, today) ==
    IF \E k \in 1..Len(DashboardSubjects) :
        \E out \in suggest_study_topic(sessions, DashboardSubjects[k], "beginner", today) :
            out.kind = "raise"
    THEN {[kind |-> "raise", notifications |-> << >>]}
    ELSE {[kind |-> "ok", notifications |-> Take(q, DashboardLimit)] :
            q \in get_pending_notifications(notifs)}

\* PersonalAssistant.display_dashboard: the ids of the notifications it
\* prints, in order, for the dashboard it got
display_dashboard(dashboard) == Take(dashboard.notifications, DashboardShown)

\* The console loop renders the dashboard before the menu.
DisplayDashboard ==
    /\ menu_pc = "menu"
    /\ \E dashboard \in get_dashboard_info(notifications, study_sessions, clock.day) :
        result' = [op |-> "dashboard", kind |-> dashboard.kind,
                   shown |-> IF dashboard.kind = "raise" THEN << >>
                             ELSE display_dashboard(dashboard)]
    /\ UNCHANGED <<emails, notifications, study_sessions, service, clock, menu_pc, scheduler>>

NextDashboard == NextNotify \/ DisplayDashboard

SpecDashboard == Init /\ [][NextDashboard]_vars

(***************************************************************************)
(* The whole system.                                                       *)
(***************************************************************************)
Next ==
    \/ Tick
    \/ NextDay
    \/ CreateNotification
    \/ DisplayNotifications
    \/ MarkPrompt
    \/ CheckEmails
    \/ AnalyzeEmails
    \/ LogStudySession
    \/ SuggestStudyTopic
    \/ CreateStudyPlan
    \/ DisplayDashboard
    \/ GetStudyRecommendations
    \/ InitDatabase
    \/ TrackStudySession
    \/ StartBackgroundServices
    \/ TimerDue
    \/ RunPending
    \/ HandlerStart
    \/ HandlerReturn
    \/ HandlerRaises
    \/ Sleep

Spec == Init /\ [][Next]_vars


(***************************************************************************)
(* Properties of the email store and of the classification.                *)
(***************************************************************************)
RowsOf(store, id) == {k \in 1..Len(store) : store[k].gmail_id = id}

\* C1: after any sequence of mailbox fetches the email store holds at most one
\* record per remote message id, and every message a fetch has returned is stored
\* exactly once, also when its id was stored before.
C1_OneRecordPerMessageId ==
    /\ \A id \in RemoteIds : Cardinality(RowsOf(emails, id)) <= 1
    /\ result.op = "check_emails" =>
        \A k \in 1..Len(result.returned) :
            Cardinality(RowsOf(emails, result.returned[k].gmail_id)) = 1

\* C1's case: a fetch has returned a message whose id was already stored, as
\* the stored record of another content shows.
C1_Witness ==
    /\ result.op = "check_emails"
    /\ \E k \in 1..Len(result.returned) : \E r \in 1..Len(emails) :
        /\ emails[r].gmail_id = result.returned[k].gmail_id
        /\ emails[r].subject # result.returned[k].subject
    /\ Len(emails) = 2

\* A text contains a configured keyword, compared case-folded.
HasKeyword(text) ==
    \E k \in 1..Len(important_keywords) : Contains(important_keywords[k], Lower(text))

\* The notification analyze_emails_for_notifications created for the k-th email
\* of the batch it was last called on.
NotificationOf(k) == notifications[Len(notifications) - Len(result.emails) + k]

\* C2: every email whose subject or snippet contains a configured keyword,
\* compared case-folded, is classified high, whatever its sender.
C2_KeywordGivesHigh ==
    result.op = "analyze" =>
        \A k \in 1..Len(result.emails) :
            (HasKeyword(result.emails[k].subject) \/ HasKeyword(result.emails[k].snippet))
                => /\ NotificationOf(k).type = "email"
                   /\ NotificationOf(k).title.arg = result.emails[k].subject
                   /\ NotificationOf(k).priority = "high"

\* C2's case: a batch with a keyword in upper case in the subject of one email
\* and a keyword in the snippet of another, from senders of no listed domain.
C2_Witness ==
    /\ result.op = "analyze"
    /\ \E a, b \in 1..Len(result.emails) :
        /\ result.emails[a].subject = <<"U","R","G","E","N","T">>
        /\ result.emails[a].sender = <<"b","o","b","@","g","m","a","i","l",".","c","o","m">>
        /\ NotificationOf(a).priority = "high"
        /\ ~HasKeyword(result.emails[b].subject)
        /\ HasKeyword(result.emails[b].snippet)
        /\ result.emails[b].sender = <<"U","n","k","n","o","w","n">>
        /\ NotificationOf(b).priority = "high"

\* The domain of a sender's address: what follows the last "@", without the ">"
\* that closes an address in angle brackets; none when there is no "@".
AddressDomain(sender) ==
    LET d == IF \E i \in 1..Len(sender) : sender[i] = "@"
             THEN AfterLastAt(sender) ELSE << >>
    IN  IF d # << >> /\ d[Len(d)] = ">" THEN SubSeq(d, 1, Len(d) - 1) ELSE d

OnAllowList(domain) ==
    \E d \in 1..Len(important_domains) : important_domains[d] = domain

\* C3: every email whose sender domain is not on the allow-list and whose
\* subject and snippet contain no configured keyword is classified medium.
C3_OtherwiseMedium ==
    result.op = "analyze" =>
        \A k \in 1..Len(result.emails) :
            (/\ ~OnAllowList(AddressDomain(result.emails[k].sender))
             /\ ~HasKeyword(result.emails[k].subject)
             /\ ~HasKeyword(result.emails[k].snippet))
                => NotificationOf(k).priority = "medium"


(***************************************************************************)
(* Properties of the notification ranker and of the read flag.             *)
(***************************************************************************)
\* The rank the ranker is specified to give a priority.
SpecifiedRank(p) ==
    IF p = "urgent" THEN 1 ELSE IF p = "high" THEN 2
    ELSE IF p = "medium" THEN 3 ELSE IF p = "low" THEN 4 ELSE 5

PosIn(seq, x) == CHOOSE k \in 1..Len(seq) : seq[k] = x

Listed(seq) == {seq[k] : k \in 1..Len(seq)}

\* C4: display_notifications lists exactly the pending (unread) notifications,
\* each once, in non-decreasing priority rank: urgent 1, high 2, medium 3, low 4,
\* any other priority last.
C4_DisplayPendingByRank ==
    result.op = "display" =>
        /\ Listed(result.shown) = {i \in 1..Len(notifications) : ~notifications[i].is_read}
        /\ Len(result.shown) = Cardinality(Listed(result.shown))
        /\ \A a, b \in 1..Len(result.shown) :
            a < b => SpecifiedRank(notifications[result.shown[a]].priority)
                        <= SpecifiedRank(notifications[result.shown[b]].priority)

\* C4's case: a display of notifications of an unknown priority, of urgent and of
\* another known priority, with a read one left out.
C4_Witness ==
    /\ result.op = "display"
    /\ Len(result.shown) >= 3
    /\ \E i \in 1..Len(notifications) : notifications[i].is_read
    /\ \E a, b, c \in Listed(result.shown) :
        /\ notifications[a].priority = "critical"
        /\ notifications[b].priority = "urgent"
        /\ notifications[c].priority = "low"

\* C5 as claimed: among pending notifications of equal priority the one inserted
\* earlier is ranked before the one inserted later. It is stated for notifications
\* created in different seconds, where the pending query's order is determined.
C5_InsertionOrderKept ==
    result.op = "display" =>
        \A i, j \in Listed(result.shown) :
            (/\ i < j
             /\ notifications[i].priority = notifications[j].priority
             /\ TsLess(notifications[i].created_at, notifications[j].created_at))
                => PosIn(result.shown, i) < PosIn(result.shown, j)

\* C5 as amended: the ranking is stable with respect to the order the pending
\* query returns (priority text descending, then creation time descending), not
\* with respect to insertion: of two notifications of equal rank the one the query
\* returns first is ranked first, so priorities [low, high, medium, high] inserted
\* in that order, the second high in a later second than the first, are ranked
\* [second high, first high, medium, low].
C5_StableOnQueryOrder ==
    result.op = "display" =>
        /\ \A a, b \in 1..Len(result.pending) :
            (/\ a < b
             /\ SpecifiedRank(notifications[result.pending[a]].priority)
                  = SpecifiedRank(notifications[result.pending[b]].priority))
                => PosIn(result.shown, result.pending[a])
                     < PosIn(result.shown, result.pending[b])
        /\ (/\ Len(notifications) = 4
            /\ \A i \in 1..4 : ~notifications[i].is_read
            /\ [i \in 1..4 |-> notifications[i].priority]
                 = <<"low", "high", "medium", "high">>
            /\ TsLess(notifications[2].created_at, notifications[4].created_at))
                => result.shown = <<4, 2, 3, 1>>

\* C5's case: [low, high, medium, high] displayed, the highs created in
\* different seconds.
C5_Witness ==
    /\ result.op = "display"
    /\ Len(notifications) = 4
    /\ \A i \in 1..4 : ~notifications[i].is_read
    /\ [i \in 1..4 |-> notifications[i].priority] = <<"low", "high", "medium", "high">>
    /\ TsLess(notifications[2].created_at, notifications[4].created_at)
    /\ result.shown = <<4, 2, 3, 1>>

\* C6: among pending notifications of equal priority, the one with the later
\* creation time is ranked before the one with the earlier creation time.
C6_LaterCreatedFirst ==
    result.op = "display" =>
        \A i, j \in Listed(result.shown) :
            (/\ notifications[i].priority = notifications[j].priority
             /\ TsLess(notifications[j].created_at, notifications[i].created_at))
                => PosIn(result.shown, i) < PosIn(result.shown, j)

\* C6's case: two pending notifications of one priority created in different
\* seconds are displayed, with a notification of a higher rank between their
\* insertions.
C6_Witness ==
    /\ result.op = "display"
    /\ \E i, j \in Listed(result.shown) :
        /\ notifications[i].priority = notifications[j].priority
        /\ TsLess(notifications[j].created_at, notifications[i].created_at)
        /\ PosIn(result.shown, i) < PosIn(result.shown, j)
        /\ \E k \in Listed(result.shown) :
            /\ j < k /\ k < i
            /\ notifications[k].priority # notifications[i].priority

\* C7: marking a notification read is idempotent: a second mark of the same id
\* leaves the store as the first left it, with the number of records unchanged,
\* the record of that id read, and every other record as it was.
C7_MarkReadIdempotent ==
    \A id \in 1..MaxNotifs :
        LET once == MarkReadById(notifications, id)
            twice == MarkReadById(once, id)
        IN  /\ twice = once
            /\ Len(twice) = Len(notifications)
            /\ id \in 1..Len(notifications) => twice[id].is_read
            /\ \A k \in 1..Len(notifications) :
                k # id => twice[k] = notifications[k]
            /\ \A k \in 1..Len(notifications) :
                twice[k] = [notifications[k] EXCEPT !.is_read = (@ \/ k = id)]

\* C7's case: the prompt has marked an id that an earlier prompt had marked,
\* while another notification is still unread.
C7_Witness ==
    /\ result.op = "mark_read"
    /\ result.again
    /\ \E k \in 1..Len(notifications) : ~notifications[k].is_read

(***************************************************************************)
(* Properties of the topic suggestion.                                     *)
(***************************************************************************)
TopicsOf(subject, level) ==
    LET available == study_topics(Lower(subject), level)
    IN  {available[k] : k \in 1..Len(available)}

LoggedRecently(subject, topic) ==
    \E r \in DOMAIN study_sessions :
        /\ r.subject = subject
        /\ r.topic = topic
        /\ r.session_date >= clock.day - RecentDays

Suggested == result.op = "suggest"

\* C8: when every curriculum topic of the subject and level has a session in
\* the last seven days, the suggestion is a review of one of those topics.
C8_ReviewWhenAllLogged ==
    (/\ Suggested
     /\ TopicsOf(result.subject, result.level) # {}
     /\ \A t \in TopicsOf(result.subject, result.level) :
            LoggedRecently(result.subject, t))
        => /\ result.out.kind = "review"
           /\ result.out.topic \in TopicsOf(result.subject, result.level)

\* C9: when some curriculum topic of the subject and level has no session in
\* the last seven days, the suggestion is such a topic, without the review
\* prefix.
C9_FreshWhenSomeUnlogged ==
    (/\ Suggested
     /\ \E t \in TopicsOf(result.subject, result.level) :
            ~LoggedRecently(result.subject, t))
        => /\ result.out.kind = "fresh"
           /\ result.out.topic \in TopicsOf(result.subject, result.level)
           /\ ~LoggedRecently(result.subject, result.out.topic)

\* C10: for a subject or level the curriculum does not have, the call
\* returns the placeholder sentence and raises nothing.
C10_PlaceholderWhenAbsent ==
    (/\ Suggested
     /\ TopicsOf(result.subject, result.level) = {})
        => /\ result.out.kind # "raise"
           /\ result.out.kind = "placeholder"

(***************************************************************************)
(* Properties of the study plans.                                          *)
(***************************************************************************)
Planned == result.op = "study_plan"

Schedule == result.out.plan.weekly_schedule

RECURSIVE Concat(_, _)
Concat(schedule, n) ==
    IF n = 0 THEN << >> ELSE Concat(schedule, n - 1) \o schedule[n].topics

\* C11: for weeks >= 1 the plan has the weeks 1..weeks, the weeks' topic
\* lists are consecutive pairwise disjoint slices of the flattened list, and
\* the topics left out are the last len % weeks of that list.
C11_WeeksAreConsecutiveSlices ==
    (Planned /\ result.weeks >= 1) =>
        LET topics == FlattenedTopics(result.subject)
            given == Concat(Schedule, result.weeks)
        IN  /\ result.out.kind = "plan"
            /\ Len(Schedule) = result.weeks
            /\ \A w \in 1..result.weeks : Schedule[w].week = w
            /\ given = SubSeq(topics, 1, Len(given))
            /\ \A a, b \in 1..Len(given) : given[a] = given[b] => a = b
            /\ Len(given) <= Len(topics)
            /\ Len(topics) - Len(given) = Len(topics) % result.weeks

C11_Witness ==
    /\ Planned
    /\ result.weeks = 4
    /\ result.hours = 5
    /\ result.subject = KeyNlp
    /\ result.out.kind = "plan"
    /\ Len(Concat(Schedule, 4)) = 16
    /\ Len(FlattenedTopics(result.subject)) = 17

\* C12 as stated: with weeks = 0 the call ends in a division fault, whatever
\* the subject.
C12_ZeroWeeksAlwaysFaults ==
    (Planned /\ result.weeks = 0) =>
        /\ result.out.kind = "raise"
        /\ result.out.text = "ZeroDivisionError"

\* C12, amended: with weeks = 0 the call ends in a division fault for every
\* subject that has curriculum topics; for a subject without any it returns
\* a plan with no week entries.
C12_ZeroWeeksFaultsWithTopics ==
    (Planned /\ result.weeks = 0) =>
        IF FlattenedTopics(result.subject) # << >>
        THEN /\ result.out.kind = "raise"
             /\ result.out.text = "ZeroDivisionError"
        ELSE /\ result.out.kind = "plan"
             /\ Schedule = << >>

C12_Witness ==
    /\ Planned
    /\ result.weeks = 0
    /\ FlattenedTopics(result.subject) # << >>
    /\ result.out.kind = "raise"

(***************************************************************************)
(* Properties of the mailbox poller.                                       *)
(***************************************************************************)
\* C13: every stored email body has at most 1000 characters.
C13_StoredBodyTruncated ==
    \A k \in 1..Len(emails) : Len(emails[k].body) <= BodyLimit

FetchFailures == {"setup_fail", "list_fail", "get_fail"}

\* C14: a poll whose fetch fails in the setup, in the listing or in getting a
\* message returns the empty list, raises nothing and leaves the
\* notifications as they were, as does a poll that finds no new mail.
C14_FailedFetchIsEmpty ==
    [][(result'.op = "check_emails") =>
        /\ (result'.outcome.kind \in FetchFailures =>
                /\ result'.returned = << >>
                /\ ~result'.raised
                /\ notifications' = notifications)
        /\ (result'.outcome.kind = "ok" /\ result'.returned = << >> =>
                /\ ~result'.raised
                /\ notifications' = notifications)]_vars

C14_Witness ==
    /\ result.op = "check_emails"
    /\ result.outcome.kind = "get_fail"
    /\ result.outcome.at = 2
    /\ Len(emails) = 1
    /\ notifications = << >>

StorageFailures == {"save_fail", "notify_fail"}

\* C15: a storage error raised by an insert of the poll, of an email or of a
\* notification, leaves the poll as an error raised to its caller.
C15_StorageErrorPropagates ==
    (result.op = "check_emails" /\ result.outcome.kind \in StorageFailures)
        => result.raised

\* C16: a poll that returns n >= 1 emails appends one notification for each
\* of them, in their order, and then one summary notification of priority
\* medium, whatever was stored or notified before; a poll that returns no
\* email appends nothing. (A poll that a storage error ends returns nothing.)
C16_NoDeduplication ==
    [][(result'.op = "check_emails" /\ ~result'.raised) =>
        LET n == Len(result'.returned)
            old == Len(notifications)
        IN  IF n >= 1
            THEN /\ Len(notifications') = old + n + 1
                 /\ SubSeq(notifications', 1, old) = notifications
                 /\ \A k \in 1..n :
                        /\ notifications'[old + k].type = "email"
                        /\ notifications'[old + k].title.arg
                               = Take(result'.returned[k].subject, TitleLimit)
                 /\ notifications'[old + n + 1].type = "email_summary"
                 /\ notifications'[old + n + 1].priority = "medium"
                 /\ notifications'[old + n + 1].title.arg = NumText(n)
            ELSE notifications' = notifications]_vars

C16_Witness ==
    /\ result.op = "check_emails"
    /\ ~result.raised
    /\ Len(result.returned) = 1
    /\ Len(emails) = 1
    /\ Len(notifications) = 4
    /\ notifications[1].type = "email"
    /\ notifications[3].type = "email"
    /\ notifications[1].title = notifications[3].title
    /\ notifications[1].message = notifications[3].message

\* C17: a stored email record is never changed and never removed: every step
\* leaves every stored row, with all its fields, where it was.
C17_StoredEmailUnchanged ==
    [][/\ Len(emails') >= Len(emails)
       /\ \A k \in 1..Len(emails) : emails'[k] = emails[k]]_vars

\* a later fetch lists a stored id with another sender, subject, body and
\* label set
C17_Witness ==
    /\ result.op = "check_emails"
    /\ \E k \in 1..Len(result.returned) : \E r \in 1..Len(emails) :
        /\ emails[r].gmail_id = result.returned[k].gmail_id
        /\ TsLess(emails[r].received_date, clock)
        /\ emails[r].sender # result.returned[k].sender
        /\ emails[r].subject # result.returned[k].subject
        /\ emails[r].labels.json # result.returned[k].labels
        /\ emails[r].body = LongBody
        /\ result.returned[k].body = result.returned[k].snippet

(***************************************************************************)
(* Properties of the notification store.                                   *)
(***************************************************************************)
\* C18: every step keeps every notification in its place with all its fields
\* but the read flag, which goes only from false to true and only in a step
\* of the mark-read prompt.
C18_NotificationsOnlyGrow ==
    [][/\ Len(notifications') >= Len(notifications)
       /\ \A k \in 1..Len(notifications) :
            /\ [notifications'[k] EXCEPT !.is_read = notifications[k].is_read]
                   = notifications[k]
            /\ notifications[k].is_read => notifications'[k].is_read
            /\ notifications'[k].is_read # notifications[k].is_read
                   => result'.op = "mark_read"]_vars

C18_Witness ==
    /\ result.op = "mark_read"
    /\ ~result.again
    /\ Len(notifications) >= 3
    /\ \E k \in 1..Len(notifications) : notifications[k].is_read
    /\ \E k \in 1..Len(notifications) : ~notifications[k].is_read

KnownPriorities == {"urgent", "high", "medium", "low"}

C20_HandlersRunOneAtATime ==
    [][/\ Cardinality(scheduler'.running) <= 1
       /\ (scheduler'.running \ scheduler.running # {} => scheduler.running = {})]_vars

\* a handler executes while another job, due since, waits to be run
C20_Witness ==
    /\ scheduler.pc = "handler"
    /\ \E job \in scheduler.running :
        /\ job.handler = "check_emails_background"
        /\ \E other \in scheduler.due \ {job} : other.handler = "daily_progress_review"

(***************************************************************************)
(* Properties of the two threads.                                          *)
(***************************************************************************)
\* C21: the threads share no in-memory state: no step of the scheduler
\* thread changes GmailIntegrator.service, the attribute the console's
\* mailbox check reads on the same integrator object.
C21_ThreadsShareOnlyTheStore ==
    [][result'.op = "handler_return" => service' = service]_vars

\* C22: whatever way a handler ends, with an error raised too, the loop of
\* run_scheduler goes on: run_pending runs the jobs left and the thread
\* sleeps until its next tick.
C22_LoopSurvivesHandlers ==
    (result.op \in {"handler_return", "handler_raise"}) => scheduler.pc = "jobs"

\* C23: a scheduled poll whose fetch fails in the setup, the listing or the
\* getting of a message returns to run_pending, creates no notification and
\* leaves the loop running, so that the poll handler is started again later.
C23_FailedPollKeepsLoop ==
    [][(/\ result'.op = "handler_return"
        /\ result'.job.handler = "check_emails_background"
        /\ scheduler'.last_poll \in FetchFailures)
            => /\ notifications' = notifications
               /\ scheduler'.pc = "jobs"
               /\ scheduler'.running = {}]_vars

\* the poll handler is started after a scheduled poll that failed
C23_Witness ==
    /\ result.op = "handler_start"
    /\ result.job.handler = "check_emails_background"
    /\ scheduler.last_poll \in FetchFailures
    /\ scheduler.pc = "handler"

(***************************************************************************)
(* Properties of the classification, continued.                            *)
(***************************************************************************)
\* The priority an email gets when it is classified alone on an empty store.
PriorityAlone(email) ==
    analyze_emails_for_notifications(<< >>, <<email>>, [day |-> 0, sec |-> 0])[1].priority

\* C24: every email of a batch gets the priority it gets when classified
\* alone, whatever the other emails of the batch, its place among them and
\* the notifications stored before; emails that agree on subject, snippet and
\* sender get the same priority.
C24_ClassificationIsPure ==
    result.op = "analyze" =>
        /\ \A k \in 1..Len(result.emails) :
            NotificationOf(k).priority = PriorityAlone(result.emails[k])
        /\ \A i, j \in 1..Len(notifications) :
            (/\ notifications[i].title = notifications[j].title
             /\ notifications[i].message = notifications[j].message)
                => notifications[i].priority = notifications[j].priority

\* an email classified medium right after one classified high
C24_Witness ==
    /\ result.op = "analyze"
    /\ Len(result.emails) = 2
    /\ NotificationOf(1).priority = "high"
    /\ NotificationOf(2).priority = "medium"
    /\ result.emails[2].subject = <<"L","u","n","c","h">>

(***************************************************************************)
(* C25: schema creation is idempotent.  Constructing the Persistence       *)
(* Gateway again on an existing store leaves every stored record as it     *)
(* was; on a store that has only some of the tables it creates the absent  *)
(* ones empty, keeps the existing ones with their rows, and a further       *)
(* construction changes nothing.                                           *)
(***************************************************************************)
\* The store with only the first n tables of the schema
StoreWithFirst(n) == [t \in {TableNames[k] : k \in 1..n} |-> CurrentStore[t]]

C25_SchemaCreationIdempotent ==
    [][result'.op = "init_database" =>
        /\ emails' = emails
        /\ notifications' = notifications
        /\ study_sessions' = study_sessions
        /\ \A n \in 0..Len(TableNames) :
            LET old == StoreWithFirst(n)
                new == init_database(old)
            IN  /\ DOMAIN new = DOMAIN CurrentStore
                /\ \A t \in DOMAIN new :
                    new[t] = IF t \in DOMAIN old THEN old[t] ELSE << >>
                /\ init_database(new) = new]_vars

C25_Witness ==
    /\ result.op = "init_database"
    /\ Len(notifications) >= 2

(***************************************************************************)
(* Properties of the study recommendations.                                *)
(***************************************************************************)
\* The subjects of the study history
HistorySubjects == {r.subject : r \in DOMAIN study_sessions}

\* The day of the latest session of the subject
LastStudied(subject) ==
    CHOOSE d \in {r.session_date : r \in {x \in DOMAIN study_sessions : x.subject = subject}} :
        \A r \in DOMAIN study_sessions : r.subject = subject => r.session_date <= d

\* The recommendations of the given type the call returned for the subject
Recommended(type, subject) ==
    \E k \in 1..Len(result.out.recommendations) :
        result.out.recommendations[k] = [type |-> type, subject |-> subject]

\* C26: for every subject of the study history, the recommendations carry a
\* consistency message exactly when the subject was untouched for more than
\* 3 days and a duration message exactly when its average session is under
\* 30 minutes, the one independently of the other.
C26_AdvisoryMessages ==
    result.op = "recommendations" =>
        /\ result.out.kind = "ok"
        /\ \A subject \in HistorySubjects :
            /\ Recommended("consistency", subject)
                <=> clock.day - LastStudied(subject) > 3
            /\ Recommended("duration", subject)
                <=> SumMinutes(study_sessions,
                        {r \in DOMAIN study_sessions : r.subject = subject})
                    < 30 * BagCardinality([r \in {x \in DOMAIN study_sessions :
                                            x.subject = subject} |-> study_sessions[r]])

(***************************************************************************)
(* Properties of the dashboard.                                            *)
(***************************************************************************)
\* urgent > high > medium > low
Outranks(p, q) ==
    /\ p \in KnownPriorities
    /\ q \in KnownPriorities
    /\ priority_order(p) < priority_order(q)

\* C27: the dashboard shows the head of the pending notifications, as many
\* as it has room for, and shows no pending notification while a pending
\* notification of higher priority is left out.
C27_DashboardShowsTopPriorities ==
    result.op = "dashboard" =>
        LET shown == {result.shown[k] : k \in 1..Len(result.shown)}
        IN  /\ shown \subseteq PendingIds(notifications)
            /\ Len(result.shown) = Min(DashboardShown, Cardinality(PendingIds(notifications)))
            /\ \A i \in shown, j \in PendingIds(notifications) \ shown :
                ~Outranks(notifications[j].priority, notifications[i].priority)

(***************************************************************************)
(* Properties of a fetch that fails midway.                                *)
(***************************************************************************)
\* C28: a fetch is not atomic.  When getting or saving message number at of
\* the listing fails, the messages listed before it are stored, the records
\* stored before the poll are where they were, the fetch returns the empty
\* list and the poll creates no notification.
C28_PartialFetchPersists ==
    [][(/\ result'.op = "check_emails"
        /\ result'.outcome.kind \in {"get_fail", "save_fail"}) =>
            /\ \A k \in 1..result'.outcome.at - 1 :
                    result'.listed[k] \in StoredIds(emails')
            /\ Len(emails') >= Len(emails)
            /\ SubSeq(emails', 1, Len(emails)) = emails
            /\ result'.returned = << >>
            /\ ~result'.raised
            /\ notifications' = notifications]_vars

\* the first message of the listing is stored by a poll that failed at the
\* second, and nothing tells of it
C28_Witness ==
    /\ result.op = "check_emails"
    /\ result.outcome = [kind |-> "save_fail", at |-> 2]
    /\ Len(emails) = 1
    /\ emails[1].gmail_id = result.listed[1]
    /\ result.returned = << >>
    /\ notifications = << >>

(***************************************************************************)
(* Properties of the action-required flag.                                 *)
(***************************************************************************)
\* C29: no stored notification has its action-required flag set, the
\* notifications of the emails a keyword made high included.
C29_ActionRequiredNeverSet ==
    \A k \in 1..Len(notifications) : ~notifications[k].action_required

\* a batch of one email with a keyword: its notification is high and the flag
\* is not set
C29_Witness ==
    /\ result.op = "analyze"
    /\ Len(result.emails) = 1
    /\ HasKeyword(result.emails[1].subject)
    /\ notifications[Len(notifications)].priority = "high"
    /\ ~notifications[Len(notifications)].action_required

(***************************************************************************)
(* Properties of the study reminders.                                      *)
(***************************************************************************)
\* C30: a firing of a study-reminder job whose handler returns appends one
\* study_reminder notification of priority medium when the minutes of the
\* sessions logged today are below 60, whatever reminders are there already,
\* and leaves the notifications as they were when the minutes have reached 60.
C30_ReminderBelowGoal ==
    [][(/\ result'.op = "handler_return"
        /\ result'.job.handler = "create_study_reminder") =>
            IF SumMinutes(study_sessions,
                   {r \in DOMAIN study_sessions : r.session_date = clock.day}) < 60
            THEN /\ Len(notifications') = Len(notifications) + 1
                 /\ SubSeq(notifications', 1, Len(notifications)) = notifications
                 /\ notifications'[Len(notifications')].type = "study_reminder"
                 /\ notifications'[Len(notifications')].priority = "medium"
            ELSE notifications' = notifications]_vars

\* a firing below the goal added a reminder; sessions were logged up to the
\* goal and the next firing added none
C30_Witness ==
    /\ result.op = "handler_return"
    /\ result.job.handler = "create_study_reminder"
    /\ today_minutes(study_sessions, clock.day) >= daily_study_goal
    /\ Len(notifications) = 3
    /\ notifications[1].type = "study_reminder"
    /\ notifications[2].type = "study_achievement"
    /\ notifications[3].type = "study_achievement"

====
